---- MODULE Spec2Model ----
(***************************************************************************)
(* Model of the MySQL health-check API (src/app/mysql_health_check.go):    *)
(* the CheckURL middleware, the row decoder unknownColumns, the probes     *)
(* readOnly / replicaStatus / isReplica / servingBinlogs /                 *)
(* galeraClusterState and the fourteen route handlers.                     *)
(*                                                                         *)
(* Text (paths, column values, response contents) is a sequence of         *)
(* one-character strings, so that strconv.Atoi, strconv.Itoa and           *)
(* strings.Trim are computed character by character.  The Go int is        *)
(* modelled with IntSize bits.  net/http serves every request on its own   *)
(* goroutine: a request slot advances one step at a time, a step being a   *)
(* database query or an access to the package-level variable lag.  The     *)
(* database is the environment: every query draws its outcome from the     *)
(* set of results the server can return through the handle db, which       *)
(* src/app/mysql_health_check.go closes when validateInputArgs returns     *)
(* and src/mysql_health_check.go keeps open.                               *)
(***************************************************************************)
EXTENDS Integers, Sequences, FiniteSets, TLC

\* ------------------------------------------------------------------ bounds
IntSize == 4                       \* modelled strconv.IntSize
NumRequests == 2                   \* requests in flight at the same time
MaxBinlog == 2                     \* largest count of Binlog Dump sessions

MaxInt == 2 ^ (IntSize - 1) - 1    \* math.MaxInt64 at the modelled width

Min(a, b) == IF a < b THEN a ELSE b

\* -------------------------------------------------------------------- text
DigitChars == <<"0", "1", "2", "3", "4", "5", "6", "7", "8", "9">>

IsDigit(c) == \E i \in 1..10 : DigitChars[i] = c

DigitVal(c) == (CHOOSE i \in 1..10 : DigitChars[i] = c) - 1

\* strconv.ParseUint's accumulation loop; a value past the range stays at
\* the cutoff MaxInt + 1
RECURSIVE ParseDigits(_, _)
ParseDigits(s, acc) ==
    IF s = <<>> THEN acc
    ELSE ParseDigits(Tail(s), Min(acc * 10 + DigitVal(Head(s)), MaxInt + 1))

\* strconv.Atoi with the error dropped (lag, _ = strconv.Atoi(...)): 0 on a
\* syntax error, the nearest representable value on a range error
Atoi(s) ==
    LET neg    == s # <<>> /\ Head(s) = "-"
        signed == s # <<>> /\ Head(s) \in {"-", "+"}
        digits == IF signed THEN Tail(s) ELSE s
    IN  IF digits = <<>> \/ \E i \in 1..Len(digits) : ~IsDigit(digits[i])
        THEN 0
        ELSE LET un == ParseDigits(digits, 0)
             IN  IF neg THEN 0 - un ELSE Min(un, MaxInt)

RECURSIVE UDigits(_)
UDigits(n) ==
    IF n < 10 THEN <<DigitChars[n + 1]>>
    ELSE UDigits(n \div 10) \o <<DigitChars[(n % 10) + 1]>>

\* strconv.Itoa
Itoa(n) == IF n < 0 THEN <<"-">> \o UDigits(0 - n) ELSE UDigits(n)

\* strings.Contains
Contains(s, sub) ==
    \E i \in 0..(Len(s) - Len(sub)) : SubSeq(s, i + 1, i + Len(sub)) = sub

InCutset(c, cutset) == \E i \in 1..Len(cutset) : cutset[i] = c

RECURSIVE TrimLeft(_, _)
TrimLeft(s, cutset) ==
    IF s # <<>> /\ InCutset(Head(s), cutset) THEN TrimLeft(Tail(s), cutset)
    ELSE s

\* strings.TrimRight
RECURSIVE TrimRight(_, _)
TrimRight(s, cutset) ==
    IF s # <<>> /\ InCutset(s[Len(s)], cutset)
    THEN TrimRight(SubSeq(s, 1, Len(s) - 1), cutset)
    ELSE s

\* strings.Trim
Trim(s, cutset) == TrimRight(TrimLeft(s, cutset), cutset)

\* ------------------------------------------------------- database results
\* A column value as database/sql hands it to a *interface{} destination:
\* nil for NULL, []byte for text, or a typed value of the driver
Null == [kind |-> "nil", text |-> <<>>]
Bytes(t) == [kind |-> "bytes", text |-> t]
Int64(t) == [kind |-> "int64", text |-> t]

\* SlaveStatus{} as created by new(SlaveStatus)
SlaveStatus == [masterHost |-> <<>>, masterPort |-> <<>>, secondsMaster |-> <<>>]

\* the loop over the columns of one scanned row: ret is TRUE when the
\* function has returned from inside the loop (b == nil)
RECURSIVE scanColumns(_, _, _, _)
scanColumns(columns, values, i, res) ==
    IF i > Len(columns) THEN [res |-> res, ret |-> FALSE]
    ELSE LET val == values[i]
             ok  == val.kind = "bytes"
         IN  IF ~ok THEN [res |-> res, ret |-> TRUE]
             ELSE LET sNum == val.text
                      col  == columns[i]
                      res2 == IF col = "Master_Host"
                                THEN [res EXCEPT !.masterHost = sNum]
                              ELSE IF col = "Master_Port"
                                THEN [res EXCEPT !.masterPort = sNum]
                              ELSE IF col = "Seconds_Behind_Master"
                                THEN [res EXCEPT !.secondsMaster = sNum]
                              ELSE res
                  IN  scanColumns(columns, values, i + 1, res2)

RECURSIVE scanRows(_, _, _)
scanRows(columns, data, res) ==
    IF data = <<>> THEN res
    ELSE LET r == scanColumns(columns, Head(data), 1, res)
         IN  IF r.ret THEN r.res ELSE scanRows(columns, Tail(data), r.res)

\* unknownColumns(rows): rows is [columns, data], data the sequence of rows
unknownColumns(rows) == scanRows(rows.columns, rows.data, SlaveStatus)

\* ------------------------------------------------------------------ probes
\* readOnly without the test of err
readOnly_noErrCheck(o) == IF o.state = "OFF" THEN FALSE ELSE TRUE

\* readOnly without the test of state
readOnly_noStateCheck(o) == IF o.err THEN FALSE ELSE TRUE

readOnly(o) == IF o.state = "OFF" \/ o.err THEN FALSE ELSE TRUE

\* results of "show slave status"
SlaveColumns ==
    <<"Slave_IO_State", "Master_Host", "Master_Port", "Seconds_Behind_Master">>

SlaveQueryError == [err |-> TRUE, columns |-> <<>>, data |-> <<>>]
SlaveNoRows == [err |-> FALSE, columns |-> SlaveColumns, data |-> <<>>]
SlaveRow(host, sbm) ==
    [err |-> FALSE, columns |-> SlaveColumns,
     data |-> << <<Bytes(<<"w">>), host, Bytes(<<"3", "3">>), sbm>> >>]

MasterHostName == <<"d", "b">>

SecondsValues ==
    { Bytes(<<"0">>), Bytes(<<"2">>), Bytes(<<"-", "1">>), Bytes(<<"x">>),
      Bytes(Itoa(MaxInt)), Null }

SlaveTables ==
    {SlaveNoRows}
      \cup { SlaveRow(Bytes(MasterHostName), sbm) : sbm \in SecondsValues }

servingBinlogs(o) == IF o.err THEN 0 ELSE o.count

\* int2bool that takes a single session for none
int2bool_moreThanOne(value) == IF value > 1 THEN TRUE ELSE FALSE

int2bool(value) == IF value # 0 THEN TRUE ELSE FALSE

\* information_schema.global_status as far as the galera query reads it: a
\* sequence of [variable_name, variable_value] rows
GlobalStatusTables ==
    { << >>,
      << [variable_name |-> "wsrep_local_state", variable_value |-> <<"4">>] >>,
      << [variable_name |-> "wsrep_local_state", variable_value |-> <<"2">>] >> }

\* where variable_name like 'wsrep_local_state' = 4: LIKE and = have the same
\* precedence and associate to the left, so the 0/1 result of LIKE is what
\* is compared with 4
GaleraWhere(row) ==
    (IF row.variable_name = "wsrep_local_state" THEN 1 ELSE 0) = 4

RECURSIVE SelectWhere(_)
SelectWhere(table) ==
    IF table = << >> THEN << >>
    ELSE IF GaleraWhere(Head(table))
           THEN <<Head(table)>> \o SelectWhere(Tail(table))
           ELSE SelectWhere(Tail(table))

\* galeraClusterState without the test of sql.ErrNoRows: v stays empty
galeraClusterState_noRowsCheck(o) ==
    LET sel == IF o.err THEN << >> ELSE SelectWhere(o.table)
    IN  IF o.err THEN <<FALSE, <<>> >>
        ELSE <<TRUE, IF sel = << >> THEN <<>> ELSE sel[1].variable_value>>

\* galeraClusterState: <<active, v>>
galeraClusterState(o) ==
    LET sel == IF o.err THEN << >> ELSE SelectWhere(o.table)
    IN  IF o.err \/ sel = << >> THEN <<FALSE, <<>> >>
        ELSE <<TRUE, sel[1].variable_value>>

\* isReplica: <<isReplica, masterHost, masterPort>>
isReplica(o) ==
    IF o.err THEN <<FALSE, <<>>, <<>> >>
    ELSE LET slaveValues == unknownColumns(o)
         IN  IF slaveValues.masterHost # <<>>
             THEN <<TRUE, slaveValues.masterHost, slaveValues.masterPort>>
             ELSE <<FALSE, <<>>, <<>> >>

\* replicaStatus, lines 294-300: 0 stands for the largest int
unbounded(lagCount) == IF lagCount = 0 THEN MaxInt ELSE lagCount

\* replicaStatus, lines 314-317
notSlaveOf(slaveValues) == slaveValues.secondsMaster = <<>>

secondsOf(slaveValues) ==
    IF slaveValues.secondsMaster = <<>> THEN <<"0">>
    ELSE slaveValues.secondsMaster

\* replicaStatus, line 321 and line 322, on the value of lag they read
lagOrSlave(l, notSlave) == l > 0 \/ ~notSlave

withinLag(lagCount, l) == lagCount > l

\* routeResponse that writes the success header for every answer
routeResponse_always200(httpStatus, contents) ==
    [written |-> TRUE, code |-> 200, status |-> httpStatus, content |-> contents]

\* routeResponse: the status line and the JSON body
routeResponse(httpStatus, contents) ==
    [written |-> TRUE, code |-> IF httpStatus THEN 200 ELSE 403,
     status |-> httpStatus, content |-> contents]

\* a handler that returns without writing: net/http answers 200, no body
NoResponse == [written |-> FALSE, code |-> 200, status |-> FALSE, content |-> <<>>]

\* ------------------------------------------------------------------- paths
matchPath ==
    <<"/", "r", "o", "l", "e", "/", "r", "e", "p", "l", "i", "c", "a", "/">>
PathStatusRO ==
    <<"/", "s", "t", "a", "t", "u", "s", "/", "r", "o">>
PathStatusRW ==
    <<"/", "s", "t", "a", "t", "u", "s", "/", "r", "w">>
PathStatusSingle ==
    <<"/", "s", "t", "a", "t", "u", "s", "/", "s", "i", "n", "g", "l", "e">>
PathStatusLeader ==
    <<"/", "s", "t", "a", "t", "u", "s", "/", "l", "e", "a", "d", "e", "r">>
PathStatusFollower ==
    <<"/", "s", "t", "a", "t", "u", "s", "/", "f", "o", "l", "l", "o", "w", "e", "r">>
PathStatusTopology ==
    <<"/", "s", "t", "a", "t", "u", "s", "/", "t", "o", "p", "o", "l", "o", "g", "y">>
PathRoleMaster ==
    <<"/", "r", "o", "l", "e", "/", "m", "a", "s", "t", "e", "r">>
PathRoleReplica ==
    <<"/", "r", "o", "l", "e", "/", "r", "e", "p", "l", "i", "c", "a">>
PathRoleGalera ==
    <<"/", "r", "o", "l", "e", "/", "g", "a", "l", "e", "r", "a">>
PathReadGaleraState ==
    <<"/", "r", "e", "a", "d", "/", "g", "a", "l", "e", "r", "a", "/", "s", "t", "a", "t", "e">>
PathReadReplicationLag ==
    <<"/", "r", "e", "a", "d", "/", "r", "e", "p", "l", "i", "c", "a", "t", "i", "o", "n", "/", "l", "a", "g">>
PathReadReplicationMaster ==
    <<"/", "r", "e", "a", "d", "/", "r", "e", "p", "l", "i", "c", "a", "t", "i", "o", "n", "/", "m", "a", "s", "t", "e", "r">>
PathReadReplicasCounter ==
    <<"/", "r", "e", "a", "d", "/", "r", "e", "p", "l", "i", "c", "a", "t", "i", "o", "n", "/", "r", "e", "p", "l", "i", "c", "a", "s", "_", "c", "o", "u", "n", "t">>

\* router.HandleFunc(pattern, handler), in the order of main
Routes ==
    << [pattern |-> PathStatusRO, handler |-> "RouteStatusReadOnly"],
       [pattern |-> PathStatusRW, handler |-> "RouteStatusReadWritable"],
       [pattern |-> PathStatusSingle, handler |-> "RouteStatusSingle"],
       [pattern |-> PathStatusLeader, handler |-> "RouteStatusLeader"],
       [pattern |-> PathStatusFollower, handler |-> "RouteStatusFollower"],
       [pattern |-> PathStatusTopology, handler |-> "RouteStatusTopology"],
       [pattern |-> PathRoleMaster, handler |-> "RouteRoleMaster"],
       [pattern |-> PathRoleReplica, handler |-> "RouteRoleReplica"],
       [pattern |-> matchPath, handler |-> "RouteRoleReplicaByLag"],
       [pattern |-> PathRoleGalera, handler |-> "RouteRoleGalera"],
       [pattern |-> PathReadGaleraState, handler |-> "RouteReadGaleraState"],
       [pattern |-> PathReadReplicationLag, handler |-> "RouteReadReplicationLag"],
       [pattern |-> PathReadReplicationMaster, handler |-> "RouteReadReplicationMaster"],
       [pattern |-> PathReadReplicasCounter, handler |-> "RouteReadReplicasCounter"] >>

\* http.ServeMux: a pattern matches its own path, a pattern that ends in a
\* slash matches every path below it
Matches(pattern, path) ==
    \/ pattern = path
    \/ /\ pattern[Len(pattern)] = "/"
       /\ Len(path) >= Len(pattern)
       /\ SubSeq(path, 1, Len(pattern)) = pattern

router(path) ==
    IF \E i \in 1..Len(Routes) : Matches(Routes[i].pattern, path)
    THEN Routes[CHOOSE i \in 1..Len(Routes) : Matches(Routes[i].pattern, path)].handler
    ELSE "NotFound"

\* the thresholds the modelled clients ask for
LagParams == { <<"2">>, Itoa(MaxInt) }

\* the request paths the modelled clients send
Paths ==
    { Routes[i].pattern : i \in 1..Len(Routes) }
      \cup { matchPath \o t : t \in LagParams }
      \cup { PathStatusRO \o <<"/">> }

\* ------------------------------------------------------------------- state
VARIABLES
    lag,         \* var lag int, the package-level threshold / lag variable
    req,         \* per request in flight: its position and its local variables
    db,          \* what the MySQL server behind db *sql.DB answers now
    masterFile,  \* whether the file /master exists
    variant,     \* the build that serves: src/app/mysql_health_check.go or
                 \* src/mysql_health_check.go
    closed,      \* whether db.Close() has run on the handle db *sql.DB
    rows,        \* unknownColumns on its own: the result set it is given
    res          \* unknownColumns on its own: whether it has returned, and
                 \* the record it returned

vars == <<lag, req, db, masterFile, variant, closed, rows, res>>

Requests == 1..NumRequests

\* the two builds differ in RouteRoleMaster only
Variants == {"app", "root"}

\* the settings of the server and of the file system the probes can
\* observe, and the values each can take
Settings ==
    [read_only |-> {"ON", "OFF"}, slave |-> SlaveTables,
     binlog |-> 0..MaxBinlog, global_status |-> GlobalStatusTables,
     masterFile |-> BOOLEAN]

Databases(settings) ==
    [read_only : settings.read_only, slave : settings.slave,
     binlog : settings.binlog, global_status : settings.global_status]

\* the deferred db.Close() has run when the server starts to listen: the
\* one of src/app/mysql_health_check.go is deferred in validateInputArgs and
\* runs when that function returns, the one of src/mysql_health_check.go is
\* deferred in main, which does not return while the server listens
ClosedAtStartup(build) == build = "app"

\* database/sql on a handle: a query fails (sql: database is closed) once
\* db.Close() has run, and otherwise fails or gives what the server answers
OnHandle(failure, answer) == IF closed THEN {failure} ELSE {failure, answer}

\* outcomes of db.QueryRow("show variables like 'read_only'").Scan(&key, &state)
ReadOnlyResults ==
    OnHandle([err |-> TRUE, state |-> ""], [err |-> FALSE, state |-> db.read_only])

\* outcomes of db.Query("show slave status")
SlaveResults == OnHandle(SlaveQueryError, db.slave)

\* outcomes of the count(*) query over information_schema.processlist
BinlogResults ==
    OnHandle([err |-> TRUE, count |-> 0], [err |-> FALSE, count |-> db.binlog])

\* outcomes of the query over information_schema.global_status
GaleraResults ==
    OnHandle([err |-> TRUE, table |-> << >>],
             [err |-> FALSE, table |-> db.global_status])

\* a request slot with no request: every local at its zero value
Idle ==
    [pc |-> "idle", path |-> <<>>,
     state |-> "", isReadonly |-> FALSE,
     isReplica |-> FALSE, masterHost |-> <<>>,
     isServeLogs |-> 0,
     isNotExist |-> FALSE, lagCount |-> 0,
     slaveValues |-> SlaveStatus, notSlave |-> FALSE,
     replicaStatus |-> FALSE, lagValue |-> 0,
     unavailable |-> {}, snapshots |-> {}, resp |-> NoResponse]

\* first statement of each handler
Entry(handler) ==
    CASE handler = "RouteStatusReadOnly" -> "RouteStatusReadOnly:390"
      [] handler = "RouteStatusReadWritable" -> "RouteStatusReadWritable:398"
      [] handler = "RouteStatusSingle" -> "RouteStatusSingle:406"
      [] handler = "RouteStatusLeader" -> "RouteStatusLeader:416"
      [] handler = "RouteStatusFollower" -> "RouteStatusFollower:425"
      [] handler = "RouteStatusTopology" -> "RouteStatusTopology:434"
      [] handler = "RouteRoleMaster" ->
           IF variant = "root" THEN "RouteRoleMasterRoot:391"
           ELSE "RouteRoleMaster:449"
      [] handler = "RouteRoleReplica" -> "RouteRoleReplica:463"
      [] handler = "RouteRoleReplicaByLag" -> "RouteRoleReplicaByLag:472"
      [] handler = "RouteRoleGalera" -> "RouteRoleGalera:481"
      [] handler = "RouteReadGaleraState" -> "RouteReadGaleraState:493"
      [] handler = "RouteReadReplicationLag" -> "RouteReadReplicationLag:502"
      [] handler = "RouteReadReplicationMaster" -> "RouteReadReplicationMaster:515"
      [] handler = "RouteReadReplicasCounter" -> "RouteReadReplicasCounter:528"
      [] OTHER -> "NotFound"

Init ==
    /\ lag = 0
    /\ req = [r \in Requests |-> Idle]
    /\ db \in Databases(Settings)
    /\ masterFile \in Settings.masterFile
    /\ variant \in Variants
    /\ closed = ClosedAtStartup(variant)
    /\ rows = SlaveNoRows
    /\ res = [returned |-> TRUE, value |-> unknownColumns(rows)]

\* the request's record after routeResponse(w, httpStatus, contents)
Respond(rec, httpStatus, contents) ==
    [rec EXCEPT !.pc = "done", !.resp = routeResponse(httpStatus, contents)]

\* the probes that found their query failed or without a row
Unavailable(rec, probe, failed) ==
    IF failed THEN rec.unavailable \cup {probe} ELSE rec.unavailable

\* the galera query did not fail and selected no row
GaleraNoRow(o) ==
    IF ~o.err /\ SelectWhere(o.table) = << >>
    THEN {"galeraClusterState.norow"} ELSE {}

\* ------------------------------------------------------------- middleware
\* CheckURL that leaves lag as the earlier requests left it
lagOfPath_stale(path) == lag

\* line 114: the value CheckURL assigns to lag
lagOfPath(path) == Atoi(Trim(path, matchPath))

\* CheckURL, lines 107-122, for a request that arrives with the given path
CheckURL(r) ==
    /\ req[r].pc = "idle"
    /\ \E path \in Paths :
         IF Contains(path, matchPath) /\ Len(path) > Len(matchPath)
         THEN /\ lag' = lagOfPath(path)
              /\ req' = [req EXCEPT ![r] =
                           [Idle EXCEPT !.path = path, !.pc = Entry(router(path))]]
              /\ UNCHANGED <<db, masterFile, variant, closed, rows, res>>
         ELSE IF path # TrimRight(path, <<"/">>)
         THEN /\ req' = [req EXCEPT ![r] =
                           [Idle EXCEPT !.path = path, !.pc = "done"]]
              /\ UNCHANGED <<lag, db, masterFile, variant, closed, rows, res>>
         ELSE /\ req' = [req EXCEPT ![r] =
                           [Idle EXCEPT !.path = path, !.pc = Entry(router(path))]]
              /\ UNCHANGED <<lag, db, masterFile, variant, closed, rows, res>>

\* LogRequests, lines 94-101: next.ServeHTTP has returned, the request ends
LogRequests(r) ==
    /\ req[r].pc = "done"
    /\ req' = [req EXCEPT ![r] = Idle]
    /\ UNCHANGED <<lag, db, masterFile, variant, closed, rows, res>>

\* ----------------------------------------------------------- replicaStatus
\* return of replicaStatus to the handler that called it, and the rest of
\* that handler up to its next query
Return(rec, ok, lagv) ==
    LET ret == [rec EXCEPT !.replicaStatus = ok, !.lagValue = lagv]
        handler == router(rec.path)
    IN  CASE handler = "RouteStatusTopology" ->
               [ret EXCEPT !.pc = "RouteStatusTopology:436"]
          [] handler = "RouteReadReplicationLag" ->
               Respond(ret, ret.isReplica,
                       IF ret.isReplica THEN Itoa(lagv) ELSE <<>>)
          [] OTHER ->     \* RouteRoleReplica, RouteRoleReplicaByLag
               Respond(ret, ret.isReadonly /\ ok, <<>>)

\* lines 304-319: the query, the decoding and the assignment to lag
replicaStatus_304(r) ==
    /\ req[r].pc = "replicaStatus:304"
    /\ \E o \in SlaveResults :
         IF o.err
         THEN /\ req' = [req EXCEPT ![r] =
                  Return([req[r] EXCEPT !.unavailable = @ \cup {"replicaStatus"}],
                         FALSE, 0)]
              /\ UNCHANGED <<lag, db, masterFile, variant, closed, rows, res>>
         ELSE LET slaveValues == unknownColumns(o)
              IN  /\ lag' = Atoi(secondsOf(slaveValues))
                  /\ req' = [req EXCEPT ![r] =
                       [req[r] EXCEPT
                          !.pc = "replicaStatus:321",
                          !.slaveValues =
                              [slaveValues EXCEPT
                                 !.secondsMaster = secondsOf(slaveValues)],
                          !.notSlave = notSlaveOf(slaveValues),
                          !.unavailable =
                              Unavailable(req[r], "replicaStatus.norow",
                                          o.data = <<>>)]]
                  /\ UNCHANGED <<db, masterFile, variant, closed, rows, res>>

\* line 321: if lag > 0 || !notSlave, else line 329
replicaStatus_321(r) ==
    /\ req[r].pc = "replicaStatus:321"
    /\ IF lagOrSlave(lag, req[r].notSlave)
       THEN req' = [req EXCEPT ![r].pc = "replicaStatus:322"]
       ELSE req' = [req EXCEPT ![r] = Return(req[r], FALSE, 0)]
    /\ UNCHANGED <<lag, db, masterFile, variant, closed, rows, res>>

\* line 322: if lagCount > lag
replicaStatus_322(r) ==
    /\ req[r].pc = "replicaStatus:322"
    /\ req' = [req EXCEPT ![r].pc = "replicaStatus:323",
                          ![r].replicaStatus = withinLag(req[r].lagCount, lag)]
    /\ UNCHANGED <<lag, db, masterFile, variant, closed, rows, res>>

\* line 323 or line 326: return true, lag / return false, lag
replicaStatus_323(r) ==
    /\ req[r].pc = "replicaStatus:323"
    /\ req' = [req EXCEPT ![r] = Return(req[r], req[r].replicaStatus, lag)]
    /\ UNCHANGED <<lag, db, masterFile, variant, closed, rows, res>>

\* ----------------------------------------------------------- status routes
RouteStatusReadOnly(r) ==
    /\ req[r].pc = "RouteStatusReadOnly:390"
    /\ \E o \in ReadOnlyResults :
         LET isReadonly == readOnly(o)
             rec == [req[r] EXCEPT !.isReadonly = isReadonly, !.state = o.state,
                       !.unavailable = Unavailable(req[r], "readOnly", o.err)]
         IN  req' = [req EXCEPT ![r] = Respond(rec, isReadonly, <<>>)]
    /\ UNCHANGED <<lag, db, masterFile, variant, closed, rows, res>>

RouteStatusReadWritable(r) ==
    /\ req[r].pc = "RouteStatusReadWritable:398"
    /\ \E o \in ReadOnlyResults :
         LET isReadonly == readOnly(o)
             rec == [req[r] EXCEPT !.isReadonly = isReadonly, !.state = o.state,
                       !.unavailable = Unavailable(req[r], "readOnly", o.err)]
         IN  req' = [req EXCEPT ![r] = Respond(rec, ~isReadonly, <<>>)]
    /\ UNCHANGED <<lag, db, masterFile, variant, closed, rows, res>>

\* isReadonly := readOnly() of a handler that goes on to the statement next
CallReadOnly(r, at, next) ==
    /\ req[r].pc = at
    /\ \E o \in ReadOnlyResults :
         req' = [req EXCEPT ![r] =
                   [req[r] EXCEPT !.pc = next, !.isReadonly = readOnly(o), !.state = o.state,
                      !.unavailable = Unavailable(req[r], "readOnly", o.err)]]
    /\ UNCHANGED <<lag, db, masterFile, variant, closed, rows, res>>

\* isReplica, _, _ := isReplica() of a handler that goes on to next
CallIsReplica(r, at, next) ==
    /\ req[r].pc = at
    /\ \E o \in SlaveResults :
         req' = [req EXCEPT ![r] =
                   [req[r] EXCEPT !.pc = next, !.isReplica = isReplica(o)[1],
                       !.masterHost = isReplica(o)[2],
                      !.unavailable =
                          Unavailable(req[r], "isReplica", o.err \/ o.data = <<>>)]]
    /\ UNCHANGED <<lag, db, masterFile, variant, closed, rows, res>>

RouteStatusSingle_406(r) ==
    CallReadOnly(r, "RouteStatusSingle:406", "RouteStatusSingle:407")

RouteStatusSingle_407(r) ==
    CallIsReplica(r, "RouteStatusSingle:407", "RouteStatusSingle:408")

RouteStatusSingle_408(r) ==
    /\ req[r].pc = "RouteStatusSingle:408"
    /\ \E o \in BinlogResults :
         LET isServeLogs == int2bool(servingBinlogs(o))
             rec == [req[r] EXCEPT !.isServeLogs = servingBinlogs(o),
                       !.unavailable = Unavailable(req[r], "servingBinlogs", o.err)]
         IN  req' = [req EXCEPT ![r] =
                       Respond(rec, ~rec.isReadonly /\ ~rec.isReplica /\ ~isServeLogs,
                               <<>>)]
    /\ UNCHANGED <<lag, db, masterFile, variant, closed, rows, res>>

RouteStatusLeader_416(r) ==
    CallIsReplica(r, "RouteStatusLeader:416", "RouteStatusLeader:417")

RouteStatusLeader_417(r) ==
    /\ req[r].pc = "RouteStatusLeader:417"
    /\ \E o \in BinlogResults :
         LET isServeLogs == int2bool(servingBinlogs(o))
             rec == [req[r] EXCEPT !.isServeLogs = servingBinlogs(o),
                       !.unavailable = Unavailable(req[r], "servingBinlogs", o.err)]
         IN  req' = [req EXCEPT ![r] =
                       Respond(rec, ~rec.isReplica /\ isServeLogs, <<>>)]
    /\ UNCHANGED <<lag, db, masterFile, variant, closed, rows, res>>

RouteStatusFollower(r) ==
    /\ req[r].pc = "RouteStatusFollower:425"
    /\ \E o \in SlaveResults :
         LET rec == [req[r] EXCEPT !.isReplica = isReplica(o)[1],
                       !.masterHost = isReplica(o)[2],
                       !.unavailable =
                           Unavailable(req[r], "isReplica", o.err \/ o.data = <<>>)]
         IN  req' = [req EXCEPT ![r] = Respond(rec, rec.isReplica, <<>>)]
    /\ UNCHANGED <<lag, db, masterFile, variant, closed, rows, res>>

\* line 434, and the entry of replicaStatus(0) up to its query
RouteStatusTopology_434(r) ==
    /\ req[r].pc = "RouteStatusTopology:434"
    /\ \E o \in SlaveResults :
         req' = [req EXCEPT ![r] =
                   [req[r] EXCEPT !.pc = "replicaStatus:304",
                      !.isReplica = isReplica(o)[1],
                       !.masterHost = isReplica(o)[2],
                      !.lagCount = unbounded(0),
                      !.unavailable =
                          Unavailable(req[r], "isReplica", o.err \/ o.data = <<>>)]]
    /\ UNCHANGED <<lag, db, masterFile, variant, closed, rows, res>>

RouteStatusTopology_436(r) ==
    /\ req[r].pc = "RouteStatusTopology:436"
    /\ \E o \in BinlogResults :
         LET isServeLogs == int2bool(servingBinlogs(o))
             rec == [req[r] EXCEPT !.isServeLogs = servingBinlogs(o),
                       !.unavailable = Unavailable(req[r], "servingBinlogs", o.err)]
         IN  req' = [req EXCEPT ![r] =
                       Respond(rec,
                               (~rec.replicaStatus /\ isServeLogs) \/ rec.isReplica,
                               <<>>)]
    /\ UNCHANGED <<lag, db, masterFile, variant, closed, rows, res>>

\* ------------------------------------------------------------- role routes
\* line 454: the condition of the master role
roleMaster(readonly, replica, serveLogs) ==
    ~readonly /\ ~replica /\ serveLogs

\* line 449: os.Stat("/master") and os.IsNotExist(err)
RouteRoleMaster_449(r) ==
    /\ req[r].pc = "RouteRoleMaster:449"
    /\ LET isNotExist == ~masterFile
       IN  IF isNotExist
           THEN req' = [req EXCEPT ![r].pc = "RouteRoleMaster:450",
                                   ![r].isNotExist = TRUE]
           ELSE req' = [req EXCEPT ![r] = Respond(req[r], TRUE, <<>>)]
    /\ UNCHANGED <<lag, db, masterFile, variant, closed, rows, res>>

RouteRoleMaster_450(r) ==
    CallReadOnly(r, "RouteRoleMaster:450", "RouteRoleMaster:451")

RouteRoleMaster_451(r) ==
    CallIsReplica(r, "RouteRoleMaster:451", "RouteRoleMaster:452")

RouteRoleMaster_452(r) ==
    /\ req[r].pc = "RouteRoleMaster:452"
    /\ \E o \in BinlogResults :
         LET isServeLogs == int2bool(servingBinlogs(o))
             rec == [req[r] EXCEPT !.isServeLogs = servingBinlogs(o),
                       !.unavailable = Unavailable(req[r], "servingBinlogs", o.err)]
         IN  req' = [req EXCEPT ![r] =
                       Respond(rec, roleMaster(rec.isReadonly, rec.isReplica, isServeLogs),
                               <<>>)]
    /\ UNCHANGED <<lag, db, masterFile, variant, closed, rows, res>>

\* roleMasterRoot without its read-only term
roleMasterRoot_noReadOnly(readonly, replica) ==
    ~replica

\* roleMasterRoot without its replica term
roleMasterRoot_noReplica(readonly, replica) ==
    ~readonly

\* src/mysql_health_check.go, line 394: the condition of the master role
roleMasterRoot(readonly, replica) ==
    ~readonly /\ ~replica

\* src/mysql_health_check.go, line 391
RouteRoleMasterRoot_391(r) ==
    CallReadOnly(r, "RouteRoleMasterRoot:391", "RouteRoleMasterRoot:392")

\* src/mysql_health_check.go, lines 392-394
RouteRoleMasterRoot_392(r) ==
    /\ req[r].pc = "RouteRoleMasterRoot:392"
    /\ \E o \in SlaveResults :
         LET rec == [req[r] EXCEPT !.isReplica = isReplica(o)[1],
                       !.masterHost = isReplica(o)[2],
                       !.unavailable =
                           Unavailable(req[r], "isReplica", o.err \/ o.data = <<>>)]
         IN  req' = [req EXCEPT ![r] =
                       Respond(rec, roleMasterRoot(rec.isReadonly, rec.isReplica),
                               <<>>)]
    /\ UNCHANGED <<lag, db, masterFile, variant, closed, rows, res>>

\* line 463, and the entry of replicaStatus(0) up to its query
RouteRoleReplica_463(r) ==
    /\ req[r].pc = "RouteRoleReplica:463"
    /\ \E o \in ReadOnlyResults :
         req' = [req EXCEPT ![r] =
                   [req[r] EXCEPT !.pc = "replicaStatus:304",
                      !.isReadonly = readOnly(o), !.state = o.state,
                      !.lagCount = unbounded(0),
                      !.unavailable = Unavailable(req[r], "readOnly", o.err)]]
    /\ UNCHANGED <<lag, db, masterFile, variant, closed, rows, res>>

\* line 472, and the entry of replicaStatus(lag) up to its query: the
\* argument is the value lag has when line 473 reads it
RouteRoleReplicaByLag_472(r) ==
    /\ req[r].pc = "RouteRoleReplicaByLag:472"
    /\ \E o \in ReadOnlyResults :
         req' = [req EXCEPT ![r] =
                   [req[r] EXCEPT !.pc = "replicaStatus:304",
                      !.isReadonly = readOnly(o), !.state = o.state,
                      !.lagCount = unbounded(lag),
                      !.unavailable = Unavailable(req[r], "readOnly", o.err)]]
    /\ UNCHANGED <<lag, db, masterFile, variant, closed, rows, res>>

RouteRoleGalera(r) ==
    /\ req[r].pc = "RouteRoleGalera:481"
    /\ \E o \in GaleraResults :
         LET rec == [req[r] EXCEPT !.unavailable =
                       Unavailable(req[r], "galeraClusterState",
                                   o.err \/ o.table = << >>)
                         \cup GaleraNoRow(o)]
         IN  req' = [req EXCEPT ![r] =
                       Respond(rec, galeraClusterState(o)[1], <<>>)]
    /\ UNCHANGED <<lag, db, masterFile, variant, closed, rows, res>>

\* ------------------------------------------------------------- read routes
RouteReadGaleraState(r) ==
    /\ req[r].pc = "RouteReadGaleraState:493"
    /\ \E o \in GaleraResults :
         LET rec == [req[r] EXCEPT !.unavailable =
                       Unavailable(req[r], "galeraClusterState",
                                   o.err \/ o.table = << >>)
                         \cup GaleraNoRow(o)]
         IN  req' = [req EXCEPT ![r] =
                       Respond(rec, galeraClusterState(o)[1], galeraClusterState(o)[2])]
    /\ UNCHANGED <<lag, db, masterFile, variant, closed, rows, res>>

\* line 502, and the entry of replicaStatus(0) up to its query
RouteReadReplicationLag_502(r) ==
    /\ req[r].pc = "RouteReadReplicationLag:502"
    /\ \E o \in SlaveResults :
         req' = [req EXCEPT ![r] =
                   [req[r] EXCEPT !.pc = "replicaStatus:304",
                      !.isReplica = isReplica(o)[1],
                       !.masterHost = isReplica(o)[2],
                      !.lagCount = unbounded(0),
                      !.unavailable =
                          Unavailable(req[r], "isReplica", o.err \/ o.data = <<>>)]]
    /\ UNCHANGED <<lag, db, masterFile, variant, closed, rows, res>>

RouteReadReplicationMaster(r) ==
    /\ req[r].pc = "RouteReadReplicationMaster:515"
    /\ \E o \in SlaveResults :
         LET ret == isReplica(o)
             rec == [req[r] EXCEPT !.isReplica = ret[1], !.masterHost = ret[2],
                       !.unavailable =
                           Unavailable(req[r], "isReplica", o.err \/ o.data = <<>>)]
             masterIP == IF ret[1] THEN ret[2] \o <<":">> \o ret[3] ELSE ret[2]
         IN  req' = [req EXCEPT ![r] = Respond(rec, ret[1], masterIP)]
    /\ UNCHANGED <<lag, db, masterFile, variant, closed, rows, res>>

RouteReadReplicasCounter(r) ==
    /\ req[r].pc = "RouteReadReplicasCounter:528"
    /\ \E o \in BinlogResults :
         LET isServeLogs == servingBinlogs(o)
             rec == [req[r] EXCEPT !.isServeLogs = isServeLogs,
                       !.unavailable = Unavailable(req[r], "servingBinlogs", o.err)]
             lagString == IF int2bool(isServeLogs) THEN Itoa(isServeLogs) ELSE <<"0">>
         IN  req' = [req EXCEPT ![r] = Respond(rec, int2bool(isServeLogs), lagString)]
    /\ UNCHANGED <<lag, db, masterFile, variant, closed, rows, res>>

\* ----------------------------------------------------------- specification
\* one step of request r once CheckURL has let it through
Serve(r) ==
    \/ LogRequests(r)
    \/ replicaStatus_304(r)
    \/ replicaStatus_321(r)
    \/ replicaStatus_322(r)
    \/ replicaStatus_323(r)
    \/ RouteStatusReadOnly(r)
    \/ RouteStatusReadWritable(r)
    \/ RouteStatusSingle_406(r)
    \/ RouteStatusSingle_407(r)
    \/ RouteStatusSingle_408(r)
    \/ RouteStatusLeader_416(r)
    \/ RouteStatusLeader_417(r)
    \/ RouteStatusFollower(r)
    \/ RouteStatusTopology_434(r)
    \/ RouteStatusTopology_436(r)
    \/ RouteRoleMaster_449(r)
    \/ RouteRoleMaster_450(r)
    \/ RouteRoleMaster_451(r)
    \/ RouteRoleMaster_452(r)
    \/ RouteRoleMasterRoot_391(r)
    \/ RouteRoleMasterRoot_392(r)
    \/ RouteRoleReplica_463(r)
    \/ RouteRoleReplicaByLag_472(r)
    \/ RouteRoleGalera(r)
    \/ RouteReadGaleraState(r)
    \/ RouteReadReplicationLag_502(r)
    \/ RouteReadReplicationMaster(r)
    \/ RouteReadReplicasCounter(r)

\* one step of request r
Step(r) == CheckURL(r) \/ Serve(r)

\* the server and the file system change on their own, one setting at a time
Environment(settings) ==
    /\ \/ /\ \E f \in DOMAIN db : \E v \in settings[f] \ {db[f]} :
               db' = [db EXCEPT ![f] = v]
          /\ UNCHANGED masterFile
       \/ /\ masterFile' \in settings.masterFile \ {masterFile}
          /\ UNCHANGED db
    /\ UNCHANGED <<lag, req, variant, closed, rows, res>>

\* the settings of the specification with requests in parallel
ParallelSettings ==
    [read_only |-> {"ON"},
     slave |-> {SlaveNoRows, SlaveRow(Bytes(MasterHostName), Bytes(<<"x">>))},
     binlog |-> {MaxBinlog}, global_status |-> { << >> },
     masterFile |-> BOOLEAN]

InitParallel ==
    /\ Init
    /\ db \in Databases(ParallelSettings)
    /\ masterFile \in ParallelSettings.masterFile

\* ----------------------------------------------- unknownColumns on its own
\* the decoder is the same in both builds; a result set reaches it in the
\* build whose handle is open
MaxColumns == 3

ColumnNames ==
    {"Slave_IO_State", "Master_Host", "Master_Port", "Seconds_Behind_Master"}

ColumnValues == { Null, Int64(<<"7">>), Bytes(<<"a">>), Bytes(<<"b">>) }

\* the column lists without a repeated name
ColumnLists ==
    UNION { { c \in [1..n -> ColumnNames] :
                \A i, j \in 1..n : c[i] = c[j] => i = j } : n \in 0..MaxColumns }

\* the result sets of one row
ResultSets ==
    UNION { { [err |-> FALSE, columns |-> c, data |-> <<v>>] :
                v \in [1..Len(c) -> ColumnValues] } : c \in ColumnLists }

InitDecoder ==
    /\ lag = 0
    /\ req = [r \in Requests |-> Idle]
    /\ db = [read_only |-> "OFF", slave |-> SlaveNoRows, binlog |-> 0,
             global_status |-> << >>]
    /\ masterFile = FALSE
    /\ variant = "root"
    /\ closed = ClosedAtStartup(variant)
    /\ rows \in ResultSets \cup {SlaveNoRows}
    /\ res = [returned |-> FALSE, value |-> SlaveStatus]

\* slaveValues := unknownColumns(rows)
unknownColumnsCall ==
    /\ ~res.returned
    /\ res' = [returned |-> TRUE, value |-> unknownColumns(rows)]
    /\ UNCHANGED <<lag, req, db, masterFile, variant, closed, rows>>

\* the next query hands over another result set
Query ==
    /\ res.returned
    /\ rows' \in ResultSets \cup {SlaveNoRows}
    /\ res' = [returned |-> FALSE, value |-> SlaveStatus]
    /\ UNCHANGED <<lag, req, db, masterFile, variant, closed>>

NextDecoder == unknownColumnsCall \/ Query

SpecDecoder == InitDecoder /\ [][NextDecoder]_vars

\* ------------------- unknownColumns of src/unnamed/part_000 on its own
\* unknownColumns(rows, column), the loop over the columns of one scanned
\* row: value.(string) panics on a value that is not text, before the name
\* of the column is looked at
RECURSIVE scanColumnsFor(_, _, _, _)
scanColumnsFor(columns, values, i, column) ==
    IF i > Len(columns) THEN [ret |-> FALSE, panic |-> FALSE, text |-> <<>>]
    ELSE LET val == values[i]
             ok  == val.kind = "bytes"
         IN  IF ~ok THEN [ret |-> TRUE, panic |-> TRUE, text |-> <<>>]
             ELSE IF columns[i] = column
               THEN [ret |-> TRUE, panic |-> FALSE, text |-> val.text]
             ELSE scanColumnsFor(columns, values, i + 1, column)

RECURSIVE scanRowsFor(_, _, _)
scanRowsFor(columns, data, column) ==
    IF data = <<>> THEN [ret |-> TRUE, panic |-> FALSE, text |-> <<>>]
    ELSE LET r == scanColumnsFor(columns, Head(data), 1, column)
         IN  IF r.ret THEN r ELSE scanRowsFor(columns, Tail(data), column)

\* unknownColumns(rows, column) of src/unnamed/part_000
unknownColumnsFor(rs, column) == scanRowsFor(rs.columns, rs.data, column)

\* the columns replicaStatus and isReplica of src/unnamed/part_000 ask for
AskedColumns == {"Seconds_Behind_Master", "Master_Host"}

InitDecoderPart000 ==
    /\ lag = 0
    /\ req = [r \in Requests |-> Idle]
    /\ db = [read_only |-> "OFF", slave |-> SlaveNoRows, binlog |-> 0,
             global_status |-> << >>]
    /\ masterFile = FALSE
    /\ variant = "part_000"
    /\ closed = ClosedAtStartup(variant)
    /\ rows \in ResultSets \cup {SlaveNoRows}
    /\ res = [returned |-> FALSE, column |-> "", panic |-> FALSE, text |-> <<>>]

\* secondsBehindMaster := unknownColumns(rows, "Seconds_Behind_Master") and
\* masterHost := unknownColumns(rows, "Master_Host")
unknownColumnsForCall ==
    /\ ~res.returned
    /\ \E column \in AskedColumns :
         LET r == unknownColumnsFor(rows, column)
         IN  res' = [returned |-> TRUE, column |-> column,
                     panic |-> r.panic, text |-> r.text]
    /\ UNCHANGED <<lag, req, db, masterFile, variant, closed, rows>>

\* the next query hands over another result set
QueryPart000 ==
    /\ res.returned
    /\ rows' \in ResultSets \cup {SlaveNoRows}
    /\ res' = [returned |-> FALSE, column |-> "", panic |-> FALSE, text |-> <<>>]
    /\ UNCHANGED <<lag, req, db, masterFile, variant, closed>>

NextDecoderPart000 == unknownColumnsForCall \/ QueryPart000

SpecDecoderPart000 == InitDecoderPart000 /\ [][NextDecoderPart000]_vars

\* requests are served in parallel, one goroutine each
Next ==
    \/ \E r \in Requests : Step(r)
    \/ Environment(ParallelSettings)

Spec == InitParallel /\ [][Next]_vars

\* requests are served one at a time: a request arrives when no other is
\* in flight
NextSerial ==
    \/ \E r \in Requests :
          /\ \A q \in Requests \ {r} : req[q].pc = "idle"
          /\ CheckURL(r)
    \/ \E r \in Requests : Serve(r)
    \/ Environment(Settings)

SpecSerial == Init /\ [][NextSerial]_vars

\* ------------------------------------------------------------ properties
Handler(r) == router(req[r].path)

\* request r has been answered by routeResponse
Answered(r) == req[r].pc = "done" /\ req[r].resp.written

ZeroLagHandlers ==
    {"RouteStatusTopology", "RouteRoleReplica", "RouteReadReplicationLag"}

\* replicaStatus has returned to the handler of request r
ReplicaStatusReturned(r) ==
    /\ Handler(r) \in ZeroLagHandlers \cup {"RouteRoleReplicaByLag"}
    /\ req[r].pc = "RouteStatusTopology:436" \/ Answered(r)

\* ... and its query had not failed, so that a result set was decoded
Decoded(r) ==
    ReplicaStatusReturned(r) /\ "replicaStatus" \notin req[r].unavailable

\* the lag replicaStatus decoded in request r
DecodedLag(r) == Atoi(req[r].slaveValues.secondsMaster)

\* C1: for every threshold t > 0 and every decoded row, replicaStatus(t)
\* returns withinThreshold = true exactly when the decoded lag is in (0, t],
\* or is 0 with Seconds_Behind_Master present
C1_WithinThresholdIffLagInInterval ==
    \A r \in Requests :
        (Decoded(r) /\ Handler(r) = "RouteRoleReplicaByLag" /\ req[r].lagCount > 0)
        => LET t == req[r].lagCount
               l == DecodedLag(r)
           IN  req[r].replicaStatus
                 = ((l > 0 /\ l <= t) \/ (l = 0 /\ ~req[r].notSlave))

\* C2: a lag-bounded replica request is evaluated with the threshold of its
\* own path, whatever the other requests do
C2_ThresholdIsOwnPathParameter ==
    \A r \in Requests :
        ( /\ Handler(r) = "RouteRoleReplicaByLag"
          /\ \/ req[r].pc \in {"replicaStatus:304", "replicaStatus:321",
                               "replicaStatus:322", "replicaStatus:323"}
             \/ Answered(r) )
        => req[r].lagCount = unbounded(Atoi(Trim(req[r].path, matchPath)))

\* the master-role request r has run its read_only probe: always in the
\* build of src/mysql_health_check.go, after os.Stat found no /master in the
\* build of src/app/mysql_health_check.go
ReadOnlyProbed(r) == variant = "root" \/ req[r].isNotExist

ProbesOf(handler) ==
    CASE handler \in {"RouteStatusReadOnly", "RouteStatusReadWritable"} ->
           {"readOnly"}
      [] handler = "RouteStatusSingle" ->
           {"readOnly", "isReplica", "servingBinlogs"}
      [] handler = "RouteRoleMaster" ->
           IF variant = "root" THEN {"readOnly", "isReplica"}
           ELSE {"readOnly", "isReplica", "servingBinlogs"}
      [] handler = "RouteStatusLeader" -> {"isReplica", "servingBinlogs"}
      [] handler \in {"RouteStatusFollower", "RouteReadReplicationMaster"} ->
           {"isReplica"}
      [] handler = "RouteStatusTopology" ->
           {"isReplica", "replicaStatus", "servingBinlogs"}
      [] handler \in {"RouteRoleReplica", "RouteRoleReplicaByLag"} ->
           {"readOnly", "replicaStatus"}
      [] handler \in {"RouteRoleGalera", "RouteReadGaleraState"} ->
           {"galeraClusterState"}
      [] handler = "RouteReadReplicationLag" -> {"isReplica", "replicaStatus"}
      [] handler = "RouteReadReplicasCounter" -> {"servingBinlogs"}
      [] OTHER -> {}

\* C5 as stated: a classification with an unavailable probe answers false
\* with an empty detail
C5_UnavailableProbeAnswersFalse ==
    \A r \in Requests :
        (Answered(r) /\ req[r].unavailable \cap ProbesOf(Handler(r)) # {})
        => ~req[r].resp.status /\ req[r].resp.content = <<>>

\* the classifications that answer true with every probe unavailable
TrueOnUnavailable ==
    {"RouteStatusReadWritable", "RouteStatusSingle"}
      \cup (IF variant = "root" THEN {"RouteRoleMaster"} ELSE {})

\* C5 as amended: an unavailable probe yields its negative signal, and with
\* every probe of the request unavailable read-write and single (and the
\* master role of src/mysql_health_check.go) answer true, replicas_count
\* answers false with detail "0" and every other classification answers
\* false with an empty detail
C5_UnavailableProbeYieldsNegativeSignal ==
    \A r \in Requests :
        Answered(r)
        => /\ "readOnly" \in req[r].unavailable => ~req[r].isReadonly
           /\ "isReplica" \in req[r].unavailable => ~req[r].isReplica
           /\ "servingBinlogs" \in req[r].unavailable => req[r].isServeLogs = 0
           /\ "replicaStatus" \in req[r].unavailable
                => ~req[r].replicaStatus /\ req[r].lagValue = 0
           /\ "galeraClusterState" \in req[r].unavailable
                => ~req[r].resp.status /\ req[r].resp.content = <<>>
           /\ ( /\ ProbesOf(Handler(r)) # {}
                /\ ProbesOf(Handler(r)) \subseteq req[r].unavailable )
                => /\ req[r].resp.status
                        = (Handler(r) \in TrueOnUnavailable)
                   /\ req[r].resp.content
                        = IF Handler(r) = "RouteReadReplicasCounter"
                            THEN <<"0">> ELSE <<>>

C5_Witness ==
    \E r \in Requests :
        /\ Answered(r) /\ Handler(r) = "RouteStatusReadWritable"
        /\ "readOnly" \in req[r].unavailable
        /\ req[r].resp.status

\* C6: on every decoded row with a non-empty Master_Host replicaStatus(0)
\* returns withinThreshold = true, so that the replica role is true as soon
\* as readOnly is
C6_FollowerImpliesReplicaUnbounded ==
    \A r \in Requests :
        ( /\ Decoded(r) /\ Handler(r) \in ZeroLagHandlers
          /\ req[r].slaveValues.masterHost # <<>> )
        => /\ req[r].replicaStatus
           /\ ( /\ Answered(r) /\ Handler(r) = "RouteRoleReplica"
                /\ req[r].isReadonly ) => req[r].resp.status

\* C7: no handler changes the state shared across requests: lag changes only
\* when CheckURL takes the threshold of an arriving request
C7_HandlersLeaveLagUnchanged ==
    [][ lag' # lag
          => \E r \in Requests : req[r].pc = "idle" /\ req'[r].pc # "idle" ]_vars

\* C8: with threshold 0, as with threshold MaxInt, replicaStatus returns
\* (true, lag) on every decoded row with a positive lag
C8_ZeroThresholdIsUnbounded ==
    \A r \in Requests :
        ( /\ Decoded(r) /\ DecodedLag(r) > 0
          /\ \/ Handler(r) \in ZeroLagHandlers
             \/ /\ Handler(r) = "RouteRoleReplicaByLag"
                /\ Atoi(Trim(req[r].path, matchPath)) = MaxInt )
        => /\ req[r].replicaStatus
           /\ req[r].lagValue = DecodedLag(r)

\* C9: replicaStatus returns (false, 0) whenever its query fails or returns
\* no row
C9_NoRowReturnsFalseZero ==
    \A r \in Requests :
        ( /\ ReplicaStatusReturned(r)
          /\ req[r].unavailable \cap {"replicaStatus", "replicaStatus.norow"} # {} )
        => ~req[r].replicaStatus /\ req[r].lagValue = 0

\* the result set without the columns unknownColumns does not recognize
Recognized(rs) ==
    LET keep == { i \in 1..Len(rs.columns) :
                    rs.columns[i] \in {"Master_Host", "Master_Port",
                                       "Seconds_Behind_Master"} }
        Pick(seq) == [ k \in 1..Cardinality(keep) |->
                         seq[CHOOSE i \in keep :
                               Cardinality({j \in keep : j < i}) = k - 1] ]
    IN  [err |-> rs.err, columns |-> Pick(rs.columns),
         data |-> [ n \in 1..Len(rs.data) |-> Pick(rs.data[n]) ]]

\* C10: the decoded record is the same with and without the unrecognized
\* columns, whatever their values and their position
C10_UnrecognizedColumnsIgnored ==
    res.returned => res.value = unknownColumns(Recognized(rows))

\* the recognized columns of the result set in rows whose value is NULL
RecognizedColumns == {"Master_Host", "Master_Port", "Seconds_Behind_Master"}

NullColumns ==
    { c \in RecognizedColumns :
        \E n \in 1..Len(rows.data) : \E i \in 1..Len(rows.columns) :
            rows.columns[i] = c /\ rows.data[n][i] = Null }

\* the field of a decoded record that belongs to a column
Field(value, c) ==
    CASE c = "Master_Host" -> value.masterHost
      [] c = "Master_Port" -> value.masterPort
      [] c = "Seconds_Behind_Master" -> value.secondsMaster

\* C11: when a recognized column of the row is NULL the decoder does not
\* panic and the field of that column is left empty, in the decoder of
\* src/app/mysql_health_check.go and in the one of src/unnamed/part_000
C11_NullColumnLeftUnset ==
    (res.returned /\ NullColumns # {})
    => IF variant = "part_000"
       THEN ~res.panic /\ (res.column \in NullColumns => res.text = <<>>)
       ELSE \A c \in NullColumns : Field(res.value, c) = <<>>

\* C12: with no row every field is empty; in a row a recognized column that
\* is missing leaves its field empty and one that is present with a text
\* value is decoded to that text
C12_AbsenceLeavesZeroValues ==
    res.returned
    => \A c \in RecognizedColumns :
         LET idx == { i \in 1..Len(rows.columns) : rows.columns[i] = c }
         IN  IF rows.data = <<>> \/ idx = {}
             THEN Field(res.value, c) = <<>>
             ELSE \A i \in idx :
                    rows.data[1][i].kind = "bytes"
                    => Field(res.value, c) = rows.data[1][i].text

StatusHandlers ==
    {"RouteStatusReadOnly", "RouteStatusReadWritable", "RouteStatusSingle",
     "RouteStatusLeader", "RouteStatusFollower"}

\* C13: every status classification answers its table formula over the
\* values its probes returned, with an empty detail, and isReplica is true
\* exactly when the probe returned a non-empty master host
C13_StatusFormulas ==
    \A r \in Requests :
        (Answered(r) /\ Handler(r) \in StatusHandlers)
        => LET ro  == req[r].isReadonly
               rep == req[r].isReplica
               n   == req[r].isServeLogs
           IN  /\ req[r].resp.status
                    = CASE Handler(r) = "RouteStatusReadOnly" -> ro
                        [] Handler(r) = "RouteStatusReadWritable" -> ~ro
                        [] Handler(r) = "RouteStatusSingle" ->
                             ~ro /\ ~rep /\ ~(n > 0)
                        [] Handler(r) = "RouteStatusLeader" -> ~rep /\ n > 0
                        [] Handler(r) = "RouteStatusFollower" -> rep
               /\ req[r].resp.content = <<>>
               /\ rep = (req[r].masterHost # <<>>)

C13_Witness ==
    \E r \in Requests :
        /\ Answered(r) /\ Handler(r) = "RouteStatusLeader"
        /\ ~req[r].isReplica /\ req[r].isServeLogs = 1
        /\ req[r].resp.status

\* C14: the topology classification answers
\* (!withinLagThreshold(0) && binlogDumpCount > 0) || isReplica over the
\* values its probes returned, and when both of its replication queries
\* found no row it answers true with binlogDumpCount > 0 and false with
\* binlogDumpCount = 0
C14_TopologyFormula ==
    \A r \in Requests :
        (Answered(r) /\ Handler(r) = "RouteStatusTopology")
        => /\ req[r].resp.status
                = ( \/ ~req[r].replicaStatus /\ req[r].isServeLogs > 0
                    \/ req[r].isReplica )
           /\ ( /\ "isReplica" \in req[r].unavailable
                /\ "replicaStatus.norow" \in req[r].unavailable )
                => req[r].resp.status = (req[r].isServeLogs > 0)

GaleraHandlers == {"RouteRoleGalera", "RouteReadGaleraState"}

\* the value of wsrep_local_state the server reports, <<>> when it reports
\* none
WsrepLocalState ==
    IF \E i \in 1..Len(db.global_status) :
          db.global_status[i].variable_name = "wsrep_local_state"
    THEN db.global_status[CHOOSE i \in 1..Len(db.global_status) :
             db.global_status[i].variable_name = "wsrep_local_state"].variable_value
    ELSE <<>>

\* C15: a galera request whose query did not fail answers true exactly when
\* the server reports wsrep_local_state = 4, and the state read then carries
\* the raw value
C15_GaleraActiveIffStateIsFour ==
    [][ \A r \in Requests :
          ( /\ Handler(r) \in GaleraHandlers
            /\ req[r].pc # "done" /\ req'[r].pc = "done"
            /\ (WsrepLocalState = <<>>
                  <=> "galeraClusterState" \in req'[r].unavailable) )
          => /\ req'[r].resp.status = (WsrepLocalState = <<"4">>)
             /\ ( /\ WsrepLocalState = <<"4">>
                  /\ Handler(r) = "RouteReadGaleraState" )
                  => req'[r].resp.content = <<"4">> ]_vars

\* C16: a galera request whose query fails and one whose query returns no
\* row get the same answer: false with an empty detail
C16_GaleraNoRowSameAsError ==
    \A r \in Requests :
        ( /\ Answered(r) /\ Handler(r) \in GaleraHandlers
          /\ req[r].unavailable
                \cap {"galeraClusterState", "galeraClusterState.norow"} # {} )
        => ~req[r].resp.status /\ req[r].resp.content = <<>>

C16_Witness ==
    \E r \in Requests :
        /\ Answered(r) /\ Handler(r) = "RouteReadGaleraState"
        /\ "galeraClusterState.norow" \in req[r].unavailable
        /\ ~req[r].resp.status /\ req[r].resp.content = <<>>

\* the handlers that call readOnly
ReadOnlyCallers ==
    {"RouteStatusReadOnly", "RouteStatusReadWritable", "RouteStatusSingle",
     "RouteRoleMaster", "RouteRoleReplica", "RouteRoleReplicaByLag"}

\* C17: the flag readOnly returned is false when the lookup failed or gave
\* no row, false when the value read is OFF and true for any other value
\* read
C17_ReadOnlyFlag ==
    \A r \in Requests :
        ( /\ Answered(r) /\ Handler(r) \in ReadOnlyCallers
          /\ Handler(r) = "RouteRoleMaster" => ReadOnlyProbed(r) )
        => req[r].isReadonly
             = ( /\ "readOnly" \notin req[r].unavailable
                 /\ req[r].state # "OFF" )

C17_Witness ==
    \E r \in Requests :
        /\ Answered(r) /\ Handler(r) = "RouteStatusReadOnly"
        /\ "readOnly" \notin req[r].unavailable
        /\ req[r].state = "ON" /\ req[r].isReadonly
        /\ req[r].resp.status

C19_ReturnedLagIsDecodedLag ==
    \A r \in Requests :
        ReplicaStatusReturned(r)
        => /\ req[r].lagValue = DecodedLag(r)
           /\ (Answered(r) /\ Handler(r) = "RouteReadReplicationLag")
                => /\ req[r].resp.status = req[r].isReplica
                   /\ req[r].resp.content
                        = IF req[r].isReplica THEN Itoa(DecodedLag(r)) ELSE <<>>

\* strconv.Atoi returns a syntax error for s
SyntaxError(s) ==
    LET digits == IF s # <<>> /\ Head(s) \in {"-", "+"} THEN Tail(s) ELSE s
    IN  digits = <<>> \/ \E i \in 1..Len(digits) : ~IsDigit(digits[i])

\* C20: on a row whose Seconds_Behind_Master is present, not empty and not
\* an integer, replicaStatus returns (true, 0) for every threshold
C20_UnparsedLagIsZeroLag ==
    \A r \in Requests :
        ( /\ Decoded(r) /\ ~req[r].notSlave
          /\ req[r].slaveValues.secondsMaster # <<>>
          /\ SyntaxError(req[r].slaveValues.secondsMaster) )
        => req[r].replicaStatus /\ req[r].lagValue = 0

\* the positions of a request whose next statement is db.Query or
\* db.QueryRow
IssuesQuery(pc) ==
    pc \notin {"idle", "done", "NotFound", "RouteRoleMaster:449",
               "replicaStatus:321", "replicaStatus:322", "replicaStatus:323"}

\* C23: once the server listens the handle of the probes is open: no request
\* is about to issue a probe query on a handle db.Close() has run on
C23_ProbesUseOpenHandle ==
    \A r \in Requests : IssuesQuery(req[r].pc) => ~closed

\* what replicaStatus returns to a first request after startup that has the
\* path of rec and observes what rec has observed
FirstReplicaStatus(rec) ==
    LET t == IF router(rec.path) = "RouteRoleReplicaByLag"
               THEN unbounded(Atoi(Trim(rec.path, matchPath)))
             ELSE unbounded(0)
        l == Atoi(rec.slaveValues.secondsMaster)
    IN  IF "replicaStatus" \in rec.unavailable THEN <<FALSE, 0>>
        ELSE IF l > 0 \/ ~rec.notSlave THEN <<t > l, l>>
        ELSE <<FALSE, 0>>

\* the status such a first request is answered with
FirstStatus(rec) ==
    LET handler == router(rec.path)
        ro  == rec.isReadonly
        rep == rec.isReplica
        n   == rec.isServeLogs
        rs  == FirstReplicaStatus(rec)[1]
    IN  CASE handler = "RouteStatusReadOnly" -> ro
          [] handler = "RouteStatusReadWritable" -> ~ro
          [] handler = "RouteStatusSingle" -> ~ro /\ ~rep /\ n = 0
          [] handler = "RouteStatusLeader" -> ~rep /\ n # 0
          [] handler = "RouteStatusTopology" -> (~rs /\ n # 0) \/ rep
          [] handler = "RouteRoleMaster" ->
               IF variant = "root" THEN ~ro /\ ~rep
               ELSE ~rec.isNotExist \/ (~ro /\ ~rep /\ n # 0)
          [] handler \in {"RouteRoleReplica", "RouteRoleReplicaByLag"} ->
               ro /\ rs
          [] handler \in GaleraHandlers ->
               rec.unavailable
                 \cap {"galeraClusterState", "galeraClusterState.norow"} = {}
          [] handler = "RouteReadReplicasCounter" -> n # 0
          [] OTHER -> rep

\* the detail such a first request is answered with; the details that are
\* a value read from the server as it is stand for themselves
FirstContent(rec) ==
    LET handler == router(rec.path)
    IN  CASE handler = "RouteReadReplicationLag" ->
               IF rec.isReplica THEN Itoa(FirstReplicaStatus(rec)[2]) ELSE <<>>
          [] handler = "RouteReadReplicasCounter" ->
               IF rec.isServeLogs # 0 THEN Itoa(rec.isServeLogs) ELSE <<"0">>
          [] handler = "RouteReadReplicationMaster" /\ rec.isReplica ->
               rec.masterHost \o <<":">>
                 \o SubSeq(rec.resp.content, Len(rec.masterHost) + 2,
                           Len(rec.resp.content))
          [] handler = "RouteReadGaleraState" /\ FirstStatus(rec) ->
               rec.resp.content
          [] OTHER -> <<>>

\* C21: served one at a time, a request is answered as a first request
\* after startup with its path and its observations would be, whatever
\* the requests before it were
C21_NoCarryOverBetweenRequests ==
    \A r \in Requests :
        Answered(r)
        => /\ req[r].resp.status = FirstStatus(req[r])
           /\ req[r].resp.content = FirstContent(req[r])

C21_Witness ==
    \E r \in Requests :
        /\ Answered(r) /\ Handler(r) = "RouteRoleReplica"
        /\ req[r].isReadonly /\ ~req[r].resp.status
        /\ "replicaStatus" \in req[r].unavailable
        /\ lag = 2

\* C24: a request that has ended carries the success code 200 only if a
\* handler answered it through routeResponse with a true status; a request
\* CheckURL rejected has run no handler and does not carry the code 200
C24_SuccessOnlyIfClassifiedTrue ==
    \A r \in Requests :
        (req[r].pc = "done" /\ req[r].resp.code = 200)
        => req[r].resp.written /\ req[r].resp.status

\* the orders the columns of a result set of n columns can come in
ColumnOrders(n) ==
    { f \in [1..n -> 1..n] : \A i, j \in 1..n : f[i] = f[j] => i = j }

\* the result set with its columns, and the values of every row, in the
\* order f
Reordered(rs, f) ==
    [err |-> rs.err,
     columns |-> [ i \in 1..Len(rs.columns) |-> rs.columns[f[i]] ],
     data |-> [ n \in 1..Len(rs.data) |->
                  [ i \in 1..Len(rs.columns) |-> rs.data[n][f[i]] ] ]]

\* C25: every field of the decoded record depends on the value of its own
\* column only: a recognized column with a text value is decoded to it
\* whatever the values of the other columns, and the record is the same in
\* every order of the columns
C25_FieldsDecodedIndependently ==
    res.returned
    => /\ \A i \in 1..Len(rows.columns) :
            ( /\ rows.data # <<>>
              /\ rows.columns[i] \in RecognizedColumns
              /\ rows.data[1][i].kind = "bytes"
              /\ \E j \in 1..Len(rows.columns) :
                    rows.data[1][j].kind # "bytes" )
            => Field(res.value, rows.columns[i]) = rows.data[1][i].text
       /\ \A f \in ColumnOrders(Len(rows.columns)) :
            unknownColumns(Reordered(rows, f)) = res.value

\* ------------------------------------------- the server between two probes
\* the classifications that run more than one probe query
MultiProbeHandlers ==
    {"RouteStatusSingle", "RouteStatusLeader", "RouteStatusTopology",
     "RouteRoleMaster", "RouteRoleReplica", "RouteRoleReplicaByLag",
     "RouteReadReplicationLag"}

\* the locals of a request with the given path whose probes all succeed
\* and all observe the server d and the file system mf
Observed(path, d, mf) ==
    LET slaveValues == unknownColumns(d.slave)
    IN  [Idle EXCEPT
           !.path = path,
           !.isNotExist = ~mf,
           !.isReadonly = readOnly([err |-> FALSE, state |-> d.read_only]),
           !.isReplica = isReplica(d.slave)[1],
           !.masterHost = isReplica(d.slave)[2],
           !.isServeLogs = servingBinlogs([err |-> FALSE, count |-> d.binlog]),
           !.slaveValues = [slaveValues EXCEPT
                              !.secondsMaster = secondsOf(slaveValues)],
           !.notSlave = notSlaveOf(slaveValues)]

\* the answer of a classification all of whose probes observe d and mf
SnapshotAnswer(path, d, mf) ==
    <<FirstStatus(Observed(path, d, mf)), FirstContent(Observed(path, d, mf))>>

\* request r is between CheckURL and its answer
InFlight(r) == req[r].pc \notin {"idle", "done"}

\* the environment step, with a record for every multi-probe request in
\* flight of the answers that belong to the states before and after it
EnvironmentObserved(settings) ==
    /\ \/ /\ \E f \in DOMAIN db : \E v \in settings[f] \ {db[f]} :
               db' = [db EXCEPT ![f] = v]
          /\ UNCHANGED masterFile
       \/ /\ masterFile' \in settings.masterFile \ {masterFile}
          /\ UNCHANGED db
    /\ req' = [ r \in Requests |->
                 IF InFlight(r) /\ Handler(r) \in MultiProbeHandlers
                 THEN [req[r] EXCEPT !.snapshots =
                         @ \cup { SnapshotAnswer(req[r].path, db, masterFile),
                                  SnapshotAnswer(req[r].path, db', masterFile') }]
                 ELSE req[r] ]
    /\ UNCHANGED <<lag, variant, closed, rows, res>>

\* the settings of the specification that records the snapshots
SnapshotSettings ==
    [read_only |-> {"ON", "OFF"},
     slave |-> {SlaveNoRows, SlaveRow(Bytes(MasterHostName), Bytes(<<"2">>))},
     binlog |-> {0, MaxBinlog}, global_status |-> { << >> },
     masterFile |-> BOOLEAN]

InitSnapshot ==
    /\ Init
    /\ db \in Databases(SnapshotSettings)

\* requests are served one at a time while the server changes
NextSnapshot ==
    \/ \E r \in Requests :
          /\ \A q \in Requests \ {r} : req[q].pc = "idle"
          /\ CheckURL(r)
    \/ \E r \in Requests : Serve(r)
    \/ EnvironmentObserved(SnapshotSettings)

SpecSnapshot == InitSnapshot /\ [][NextSnapshot]_vars

\* C22: a multi-probe classification whose probes all succeeded while the
\* server changed during the request is answered as its formula evaluates
\* in one of the server states that existed during the request
C22_AnswerFromOneSnapshot ==
    \A r \in Requests :
        ( /\ Answered(r) /\ Handler(r) \in MultiProbeHandlers
          /\ req[r].snapshots # {}
          /\ req[r].unavailable
                \cap {"readOnly", "isReplica", "servingBinlogs",
                      "replicaStatus"} = {} )
        => <<req[r].resp.status, req[r].resp.content>> \in req[r].snapshots

====
